---- MODULE Spec2Model ----
(***************************************************************************)
(* Model of app.py: the tourism planner's parent agent (plan_for_place)    *)
(* and its three child agents (geocode_place, get_weather, find_places).   *)
(*                                                                         *)
(* Provider responses are the inputs.  JSON values are tagged records so   *)
(* that Python's dynamic typing (None, numbers, strings, objects) and its  *)
(* truthiness tests can be modelled as the code performs them.  A Python   *)
(* exception is modelled by the branch of the enclosing try/except that    *)
(* the code takes when it is raised.                                       *)
(***************************************************************************)
EXTENDS Integers, Sequences, FiniteSets, TLC

VARIABLES
    pc,            \* position inside the running call
    place_query,   \* argument of plan_for_place
    geo_resp,      \* response of the Nominatim request
    weather_resp,  \* response of the Open-Meteo request
    overpass_resp, \* response of the Overpass request
    origin,        \* (lat, lon) handed to get_weather / find_places
    max_places,    \* max_places argument of find_places
    calls,         \* provider requests issued so far, in order
    geocode,       \* plan_for_place: local `geocode`
    weather,       \* plan_for_place: local `weather` / get_weather's return value
    places,        \* plan_for_place: local `places` / find_places' return value
    result         \* value returned by plan_for_place

vars == <<pc, place_query, geo_resp, weather_resp, overpass_resp, origin,
          max_places, calls, geocode, weather, places, result>>

---------------------------------------------------------------------------
(* JSON / Python values *)

None == [k |-> "none"]
Num(n) == [k |-> "num", n |-> n]
\* a number with fractional part one half: Half(12) is 12.5
Half(n) == [k |-> "half", n |-> n]
Str(s) == [k |-> "str", s |-> s]

IsNum(v) == v.k = "num"

\* Python truthiness (`if not x`, `x and y`, `x or {}`)
Truthy(v) ==
    CASE v.k = "none" -> FALSE
      [] v.k = "num" -> v.n # 0
      [] v.k = "half" -> TRUE
      [] v.k = "str" -> v.s # ""
      [] v.k = "list" -> v.items # <<>>
      [] v.k = "obj" -> v.nonempty
      [] OTHER -> TRUE

Abs(i) == IF i < 0 THEN -i ELSE i

Range(s) == {s[i] : i \in 1..Len(s)}

SeqsUpTo(S, n) == UNION {[1..m -> S] : m \in 0..n}

---------------------------------------------------------------------------
(* haversine: fixed-point evaluation on the 30-degree grid.                *)
(* Angles are whole degrees (multiples of 30), trigonometric values are    *)
(* thousandths, the result is whole kilometres.  The inverse sine is        *)
(* interpolated linearly between grid values, so distances are approximate *)
(* but ordered as the real ones are on the grid.                           *)

R == 6371

\* math.sin(math.radians(d)/2)**2, in thousandths
Sin2Half(d) ==
    LET a == Abs(d) % 360
        b == IF a > 180 THEN 360 - a ELSE a
    IN CASE b = 0 -> 0
         [] b = 30 -> 67
         [] b = 60 -> 250
         [] b = 90 -> 500
         [] b = 120 -> 750
         [] b = 150 -> 933
         [] b = 180 -> 1000

\* math.cos(math.radians(p)), in thousandths
CosDeg(p) ==
    LET a == Abs(p)
    IN CASE a = 0 -> 1000
         [] a = 30 -> 866
         [] a = 60 -> 500
         [] a = 90 -> 0

\* 2 * math.asin(math.sqrt(a)) as a central angle in hundredths of a degree,
\* interpolated between the grid values of Sin2Half
CentralAngle(a) ==
    LET T == <<0, 67, 250, 500, 750, 933, 1000>>
        k == CHOOSE i \in 1..6 : T[i] <= a /\ a <= T[i + 1]
    IN 3000 * (k - 1) + (3000 * (a - T[k])) \div (T[k + 1] - T[k])

haversine(lat1, lon1, lat2, lon2) ==
    LET a == Sin2Half(lat2 - lat1)
             + (CosDeg(lat1) * CosDeg(lat2) * Sin2Half(lon2 - lon1)) \div 1000000
    IN (((R * 17453) \div 1000) * CentralAngle(a)) \div 100000

---------------------------------------------------------------------------
(* geocode_place *)

Absent == [k |-> "absent"]

\* float(s) for the coordinate strings Nominatim sends; other strings raise
FloatTable == [s \in {"0", "30", "30.0", "60"} |->
                 CASE s = "0" -> 0 [] s = "30" -> 30 [] s = "30.0" -> 30 [] s = "60" -> 60]

FloatOk(v) == \/ v.k = "num"
              \/ v.k = "str" /\ v.s \in DOMAIN FloatTable

Float(v) == IF v.k = "num" THEN v.n ELSE FloatTable[v.s]

\* requests.get(...) / raise_for_status() / resp.json() raised
RequestFailed(resp) == resp.status # "ok"

\* mutant: an undecodable coordinate defaults to 0 instead of raising
geocode_place_lenient(place, resp) ==
    IF RequestFailed(resp) THEN None
    ELSE LET data == resp.data IN
      IF ~Truthy(data) THEN None
      ELSE IF data.k # "list" THEN None
      ELSE LET item == data.items[1] IN
        [k |-> "geocode",
         lat |-> IF FloatOk(item.lat) THEN Float(item.lat) ELSE 0,
         lon |-> IF FloatOk(item.lon) THEN Float(item.lon) ELSE 0,
         display_name |-> IF item.display_name = Absent
                          THEN Str(place) ELSE item.display_name]

geocode_place(place, resp) ==
    IF RequestFailed(resp) THEN None
    ELSE LET data == resp.data IN
      IF ~Truthy(data) THEN None
      ELSE IF data.k # "list" THEN None            \* data[0] raises on an object
      ELSE LET item == data.items[1] IN
        IF ~FloatOk(item.lat) \/ ~FloatOk(item.lon) THEN None
        ELSE [k |-> "geocode",
              lat |-> Float(item.lat),
              lon |-> Float(item.lon),
              display_name |-> IF item.display_name = Absent
                               THEN Str(place) ELSE item.display_name]

---------------------------------------------------------------------------
(* get_weather *)

\* datetime.fromisoformat(s).replace(tzinfo=None), as seconds since midnight
\* of 2024-01-01; other strings raise
IsoTable == [s \in {"2024-01-01T10:00", "2024-01-01T10:30", "2024-01-01T10:40",
                    "2024-01-01T11:00", "2024-01-01T11:00:00",
                    "2024-01-01T11:00+05:30"} |->
               CASE s = "2024-01-01T10:00" -> 36000
                 [] s = "2024-01-01T10:30" -> 37800
                 [] s = "2024-01-01T10:40" -> 38400
                 [] s = "2024-01-01T11:00" -> 39600
                 [] s = "2024-01-01T11:00:00" -> 39600
                 [] s = "2024-01-01T11:00+05:30" -> 39600]

to_ts_ok(v) == v.k = "str" /\ v.s \in DOMAIN IsoTable

to_ts(v) == IsoTable[v.s]

\* int(round(x)): Python rounds halves to the even neighbour
PyRound(v) == IF v.k = "num" THEN v.n
              ELSE IF v.n % 2 = 0 THEN v.n ELSE v.n + 1

\* precip_prob = int(round(probs[idx])) inside the inner try
RoundAt(probs, idx) ==
    IF idx > Len(probs) THEN None                    \* IndexError
    ELSE IF probs[idx].k \notin {"num", "half"} THEN None   \* TypeError
    ELSE Num(PyRound(probs[idx]))

\* mutant: the last position holding x
IndexOfLast(seq, x) ==
    CHOOSE i \in 1..Len(seq) : seq[i] = x /\ \A j \in (i + 1)..Len(seq) : seq[j] # x

\* list.index(x): first position holding x
IndexOf(seq, x) == CHOOSE i \in 1..Len(seq) : seq[i] = x /\ \A j \in 1..(i - 1) : seq[j] # x

MinOf(seq) == CHOOSE m \in Range(seq) : \A x \in Range(seq) : m <= x

\* the inner try/except of get_weather
PrecipProb(data, curr) ==
    LET hourly == data.hourly IN
    IF hourly = Absent THEN None                      \* {} : times = probs = []
    ELSE IF hourly.k # "obj" THEN None                \* AttributeError
    ELSE LET times == hourly.time
             probs == hourly.precipitation_probability IN
      IF times = <<>> \/ probs = <<>> THEN None
      ELSE IF curr.k # "obj" THEN None                \* AttributeError
      ELSE LET curtime == curr.time IN
        IF curtime \in Range(times)
        THEN RoundAt(probs, IndexOf(times, curtime))
        ELSE IF ~to_ts_ok(curtime) \/ \E i \in 1..Len(times) : ~to_ts_ok(times[i])
        THEN None                                     \* fromisoformat raises
        ELSE LET cur_ts == to_ts(curtime)
                 diffs == [i \in 1..Len(times) |-> Abs(cur_ts - to_ts(times[i]))]
             IN RoundAt(probs, IndexOf(diffs, MinOf(diffs)))

\* mutant: no inner try, a failed alignment fails the whole lookup
get_weather_strict(lat, lon, resp) ==
    IF RequestFailed(resp) THEN None
    ELSE LET data == resp.data IN
      IF data.k # "obj" THEN None
      ELSE LET curr == data.current_weather IN
        IF ~Truthy(curr) THEN None
        ELSE IF curr.k # "obj" THEN None
        ELSE IF PrecipProb(data, curr) = None THEN None
        ELSE [k |-> "weather",
              temperature |-> curr.temperature,
              windspeed |-> curr.windspeed,
              time |-> curr.time,
              precip_prob |-> PrecipProb(data, curr)]

get_weather(lat, lon, resp) ==
    IF RequestFailed(resp) THEN None
    ELSE LET data == resp.data IN
      IF data.k # "obj" THEN None                     \* data.get raises
      ELSE LET curr == data.current_weather IN
        IF ~Truthy(curr) THEN None
        ELSE IF curr.k # "obj" THEN None              \* curr.get raises
        ELSE [k |-> "weather",
              temperature |-> curr.temperature,
              windspeed |-> curr.windspeed,
              time |-> curr.time,
              precip_prob |-> PrecipProb(data, curr)]

---------------------------------------------------------------------------
(* find_places *)

\* primary_tag: first truthy tag among tourism, historic, leisure, amenity
PrimaryTag(tags) ==
    IF Truthy(tags.tourism) THEN "tourism=" \o tags.tourism.s
    ELSE IF Truthy(tags.historic) THEN "historic=" \o tags.historic.s
    ELSE IF Truthy(tags.leisure) THEN "leisure=" \o tags.leisure.s
    ELSE IF Truthy(tags.amenity) THEN "amenity=" \o tags.amenity.s
    ELSE "other"

\* el.get("center") or {}
CenterOf(el) == IF Truthy(el.center) THEN el.center ELSE [k |-> "obj", nonempty |-> FALSE, lat |-> None, lon |-> None]

\* plat, plon as the loop body reads them
PLat(el) == IF el.type = "node" THEN el.lat ELSE CenterOf(el).lat
PLon(el) == IF el.type = "node" THEN el.lon ELSE CenterOf(el).lon

\* dist = haversine(lat, lon, plat, plon) if plat and plon else None
DistOf(lat, lon, plat, plon) ==
    IF Truthy(plat) /\ Truthy(plon) THEN Num(haversine(lat, lon, plat.n, plon.n)) ELSE None

\* haversine raises on a truthy non-number (math.radians of a string)
DistRaises(plat, plon) == Truthy(plat) /\ Truthy(plon) /\ ~(IsNum(plat) /\ IsNum(plon))

PlaceEntry(lat, lon, el) ==
    [name |-> el.tags.name,
     tags |-> el.tags,
     type |-> PrimaryTag(el.tags),
     lat |-> PLat(el),
     lon |-> PLon(el),
     distance_km |-> DistOf(lat, lon, PLat(el), PLon(el))]

\* mutant: the centroid check runs before the name is recorded as seen
RECURSIVE CollectPlacesCentroidFirst(_, _, _, _, _)
CollectPlacesCentroidFirst(lat, lon, elems, acc, seen_names) ==
    IF elems = <<>> THEN [raised |-> FALSE, places |-> acc]
    ELSE LET el == Head(elems)
             name == el.tags.name
         IN IF ~Truthy(name) THEN CollectPlacesCentroidFirst(lat, lon, Tail(elems), acc, seen_names)
            ELSE IF name \in seen_names
                 THEN CollectPlacesCentroidFirst(lat, lon, Tail(elems), acc, seen_names)
            ELSE IF el.type # "node" /\ (PLat(el) = None \/ PLon(el) = None)
                 THEN CollectPlacesCentroidFirst(lat, lon, Tail(elems), acc, seen_names)
            ELSE IF DistRaises(PLat(el), PLon(el)) THEN [raised |-> TRUE, places |-> <<>>]
            ELSE CollectPlacesCentroidFirst(lat, lon, Tail(elems),
                                            Append(acc, PlaceEntry(lat, lon, el)),
                                            seen_names \cup {name})

\* the for loop over elems: [raised, places]
RECURSIVE CollectPlaces(_, _, _, _, _)
CollectPlaces(lat, lon, elems, acc, seen_names) ==
    IF elems = <<>> THEN [raised |-> FALSE, places |-> acc]
    ELSE LET el == Head(elems)
             name == el.tags.name
         IN IF ~Truthy(name) THEN CollectPlaces(lat, lon, Tail(elems), acc, seen_names)
            ELSE IF name \in seen_names THEN CollectPlaces(lat, lon, Tail(elems), acc, seen_names)
            ELSE IF el.type # "node" /\ (PLat(el) = None \/ PLon(el) = None)
                 THEN CollectPlaces(lat, lon, Tail(elems), acc, seen_names \cup {name})
            ELSE IF DistRaises(PLat(el), PLon(el)) THEN [raised |-> TRUE, places |-> <<>>]
            ELSE CollectPlaces(lat, lon, Tail(elems), Append(acc, PlaceEntry(lat, lon, el)),
                               seen_names \cup {name})

\* mutant: the comparison reversed (descending order)
RECURSIVE InsertDescending(_, _)
InsertDescending(sorted, p) ==
    IF sorted = <<>> THEN <<p>>
    ELSE IF Head(sorted).distance_km.n >= p.distance_km.n
         THEN <<Head(sorted)>> \o InsertDescending(Tail(sorted), p)
         ELSE <<p>> \o sorted

\* insertion of p after every element whose key is not larger (stable)
RECURSIVE InsertByDistance(_, _)
InsertByDistance(sorted, p) ==
    IF sorted = <<>> THEN <<p>>
    ELSE IF Head(sorted).distance_km.n <= p.distance_km.n
         THEN <<Head(sorted)>> \o InsertByDistance(Tail(sorted), p)
         ELSE <<p>> \o sorted

\* sorted(seq, key=lambda x: x["distance_km"]): stable, ascending
RECURSIVE SortedByDistance(_)
SortedByDistance(seq) ==
    IF seq = <<>> THEN <<>>
    ELSE InsertByDistance(SortedByDistance(SubSeq(seq, 1, Len(seq) - 1)), seq[Len(seq)])

\* mutant: slice bound off by one, seq[:n + 1]
TakeOneMore(seq, n) == SubSeq(seq, 1, IF Len(seq) < n + 1 THEN Len(seq) ELSE n + 1)

\* seq[:n]
Take(seq, n) == SubSeq(seq, 1, IF Len(seq) < n THEN Len(seq) ELSE n)

HasDistance(p) == p.distance_km # None

\* mutant: the rest is appended only when no entry has a distance
RankPlacesAppendIfNoneSorted(all, limit) ==
    LET places_sorted == SortedByDistance(SelectSeq(all, HasDistance))
        NotInSorted(p) == p \notin Range(places_sorted)
        extended == IF Len(places_sorted) = 0
                    THEN places_sorted \o SelectSeq(all, NotInSorted)
                    ELSE places_sorted
    IN Take(extended, limit)

\* sort, conditional extend, truncate
RankPlaces(all, limit) ==
    LET places_sorted == SortedByDistance(SelectSeq(all, HasDistance))
        NotInSorted(p) == p \notin Range(places_sorted)
        extended == IF Len(places_sorted) < limit
                    THEN places_sorted \o SelectSeq(all, NotInSorted)
                    ELSE places_sorted
    IN Take(extended, limit)

find_places(lat, lon, resp, radius_m, limit) ==
    IF RequestFailed(resp) THEN <<>>
    ELSE LET data == resp.data IN
      IF data.k # "obj" THEN <<>>                     \* data.get raises
      ELSE LET collected == CollectPlaces(lat, lon, data.elements, <<>>, {}) IN
        IF collected.raised THEN <<>>
        ELSE RankPlaces(collected.places, limit)

---------------------------------------------------------------------------
(* plan_for_place *)

DEFAULT_RADIUS_M == 20000
DEFAULT_MAX_PLACES == 5

ErrorMessage(q) ==
    "I don't know this place exists: '" \o q \o "'. Please check spelling or try a different place."

FailureResult(q) == [ok |-> FALSE, error |-> ErrorMessage(q)]

\* mutant: a failed weather lookup fails the whole plan
SuccessResultAllOrNothing(q, geo, w, ps) ==
    IF w = None THEN FailureResult(q)
    ELSE [ok |-> TRUE,
          place |-> [query |-> q, display_name |-> geo.display_name, lat |-> geo.lat, lon |-> geo.lon],
          weather |-> w,
          places |-> ps]

SuccessResult(q, geo, w, ps) ==
    [ok |-> TRUE,
     place |-> [query |-> q, display_name |-> geo.display_name, lat |-> geo.lat, lon |-> geo.lon],
     weather |-> w,
     places |-> ps]

\* the requests a child agent sends
GeoCall(q) == [provider |-> "nominatim", q |-> q, limit |-> 1]
\* mutant: latitude and longitude swapped in the request parameters
WeatherCallSwapped(lat, lon) == [provider |-> "open-meteo", latitude |-> lon, longitude |-> lat]
WeatherCall(lat, lon) == [provider |-> "open-meteo", latitude |-> lat, longitude |-> lon]
OverpassCall(lat, lon, radius_m) ==
    [provider |-> "overpass", lat |-> lat, lon |-> lon, radius_m |-> radius_m]

---------------------------------------------------------------------------
(* provider responses the model draws from *)

MaxCandidates == 1
MaxHourly == 2
MaxElems == 3
MaxLimit == 3
PlanMaxElems == 2

Unsent == [status |-> "unsent"]
Failures == {[status |-> "timeout"], [status |-> "http_error"], [status |-> "bad_json"]}
Ok(data) == [status |-> "ok", data |-> data]
\* a JSON document of the wrong top-level shape
ListDoc(items) == [k |-> "list", items |-> items]
ErrorDoc == [k |-> "obj", nonempty |-> TRUE, current_weather |-> None, hourly |-> Absent,
             elements |-> <<>>]

Queries == {"Bangalore", "Nowhere12345xyz"}

GeoCandidates ==
    {[lat |-> Str("30"), lon |-> Str("60"), display_name |-> Str("Bengaluru, India")],
     [lat |-> Str("30.0"), lon |-> Str("0"), display_name |-> Absent],
     [lat |-> Str("0"), lon |-> Str("30"), display_name |-> Str("Equator")],
     [lat |-> Num(60), lon |-> Num(30), display_name |-> None],
     [lat |-> Str("abc"), lon |-> Str("30"), display_name |-> Str("Undecodable")],
     [lat |-> None, lon |-> Str("30"), display_name |-> Str("No latitude")]}

GeoResponses ==
    Failures \cup {Ok(ErrorDoc)}
    \cup {Ok(ListDoc(items)) : items \in SeqsUpTo(GeoCandidates, MaxCandidates)}

Origins == {<<0, 0>>, <<30, 30>>}

\* current_weather block: an object, or something that is not one
CurrentBlock(t, w, time) ==
    [k |-> "obj", nonempty |-> TRUE, temperature |-> t, windspeed |-> w, time |-> time]
EmptyBlock ==
    [k |-> "obj", nonempty |-> FALSE, temperature |-> None, windspeed |-> None, time |-> None]

CurTimes == {Str("2024-01-01T11:00"), Str("2024-01-01T10:40"), Str("2024-01-01T10:30"),
             Str("2024-01-01T11:00:00"), None}
HourTimes == {Str("2024-01-01T10:00"), Str("2024-01-01T11:00"),
              Str("2024-01-01T11:00+05:30"), Str("not-a-time")}
ProbValues == {Num(10), Num(80), Half(12), None}

CurrentBlocks ==
    {None, EmptyBlock, Str("n/a")}
    \cup {CurrentBlock(tw[1], tw[2], time) :
            tw \in {<<Num(21), Num(7)>>, <<None, None>>}, time \in CurTimes}

Hourly(times, probs) ==
    [k |-> "obj", nonempty |-> TRUE, time |-> times, precipitation_probability |-> probs]

Hourlies ==
    {Absent, None}
    \cup {Hourly(times, probs) :
            times \in SeqsUpTo(HourTimes, MaxHourly), probs \in SeqsUpTo(ProbValues, MaxHourly)}

WeatherDoc(curr, hourly) ==
    [k |-> "obj", nonempty |-> TRUE, current_weather |-> curr, hourly |-> hourly]

WeatherResponses ==
    Failures \cup {Ok(ListDoc(<<>>))}
    \cup {Ok(WeatherDoc(curr, hourly)) : curr \in CurrentBlocks, hourly \in Hourlies}

PlanWeatherResponses ==
    Failures \cup {Ok(ListDoc(<<>>))}
    \cup {Ok(WeatherDoc(curr, Absent)) : curr \in {None, EmptyBlock, Str("n/a")}}
    \cup {Ok(WeatherDoc(CurrentBlock(Num(21), Num(7), Str("2024-01-01T10:40")), hourly)) :
            hourly \in {Absent,
                        Hourly(<<Str("2024-01-01T10:00"), Str("2024-01-01T11:00")>>,
                               <<Num(10), Num(80)>>)}}

Tags(name, tourism, historic, leisure) ==
    [name |-> name, tourism |-> tourism, historic |-> historic, leisure |-> leisure,
     amenity |-> None]

Node(lat, lon, tags) ==
    [type |-> "node", lat |-> lat, lon |-> lon, center |-> None, tags |-> tags]
Way(center, tags) ==
    [type |-> "way", lat |-> None, lon |-> None, center |-> center, tags |-> tags]
Center(lat, lon) == [k |-> "obj", nonempty |-> TRUE, lat |-> lat, lon |-> lon]

ElementsNamed(n) ==
    {Node(Num(30), Num(60), Tags(Str(n), Str("museum"), None, None)),
     Node(Num(60), Num(30), Tags(Str(n), Str("museum"), Str("castle"), None)),
     Node(Num(0), Num(30), Tags(Str(n), None, None, Str("park"))),
     Node(None, None, Tags(Str(n), None, None, None)),
     Way(Center(Num(30), Num(60)), Tags(Str(n), None, Str("castle"), None)),
     Way(None, Tags(Str(n), None, Str("castle"), None))}

Elements ==
    ElementsNamed("A") \cup ElementsNamed("B")
    \cup {Node(Num(60), Num(30), Tags(Str("C"), Str("viewpoint"), None, None)),
          Way(Center(Num(0), Num(60)), Tags(Str("C"), None, None, Str("park"))),
          Node(Num(30), Num(60), Tags(None, Str("museum"), None, None)),
          Node(Str("x"), Num(30), Tags(Str("C"), Str("museum"), None, None))}

PlanElements ==
    {Node(Num(30), Num(60), Tags(Str("A"), Str("museum"), None, None)),
     Node(Num(0), Num(30), Tags(Str("B"), None, None, Str("park"))),
     Way(None, Tags(Str("A"), None, Str("castle"), None)),
     Node(Num(30), Num(60), Tags(None, Str("museum"), None, None)),
     Node(Str("x"), Num(30), Tags(Str("C"), Str("museum"), None, None))}

OverpassDoc(elems) == [k |-> "obj", nonempty |-> TRUE, elements |-> elems]

OverpassResponses ==
    Failures \cup {Ok(ListDoc(<<>>))}
    \cup {Ok(OverpassDoc(elems)) : elems \in SeqsUpTo(Elements, MaxElems)}

PlanOverpassResponses ==
    Failures \cup {Ok(ListDoc(<<>>))}
    \cup {Ok(OverpassDoc(elems)) : elems \in SeqsUpTo(PlanElements, PlanMaxElems)}

---------------------------------------------------------------------------
(* plan_for_place, one step per provider request *)

Init ==
    /\ pc = "start"
    /\ place_query \in Queries
    /\ geo_resp = Unsent
    /\ weather_resp = Unsent
    /\ overpass_resp = Unsent
    /\ origin = <<>>
    /\ max_places = DEFAULT_MAX_PLACES
    /\ calls = <<>>
    /\ geocode = None
    /\ weather = None
    /\ places = <<>>
    /\ result = None

\* geocode = geocode_place(place_query); if not geocode: return {...}
PlanGeocode ==
    /\ pc = "start"
    /\ \E resp \in GeoResponses :
         LET g == geocode_place(place_query, resp) IN
         /\ geo_resp' = resp
         /\ calls' = Append(calls, GeoCall(place_query))
         /\ geocode' = g
         /\ IF g = None
            THEN /\ result' = FailureResult(place_query)
                 /\ pc' = "done"
                 /\ origin' = origin
            ELSE /\ result' = result
                 /\ pc' = "weather"
                 /\ origin' = <<g.lat, g.lon>>
    /\ UNCHANGED <<place_query, weather_resp, overpass_resp, max_places, weather, places>>

\* weather = get_weather(lat, lon)
PlanWeather ==
    /\ pc = "weather"
    /\ \E resp \in PlanWeatherResponses :
         /\ weather_resp' = resp
         /\ calls' = Append(calls, WeatherCall(origin[1], origin[2]))
         /\ weather' = get_weather(origin[1], origin[2], resp)
    /\ pc' = "places"
    /\ UNCHANGED <<place_query, geo_resp, overpass_resp, origin, max_places, geocode,
                   places, result>>

\* places = find_places(lat, lon, radius_m=20000, max_places=5); return {...}
PlanPlaces ==
    /\ pc = "places"
    /\ \E resp \in PlanOverpassResponses :
         LET ps == find_places(origin[1], origin[2], resp, DEFAULT_RADIUS_M, max_places) IN
         /\ overpass_resp' = resp
         /\ calls' = Append(calls, OverpassCall(origin[1], origin[2], DEFAULT_RADIUS_M))
         /\ places' = ps
         /\ result' = SuccessResult(place_query, geocode, weather, ps)
    /\ pc' = "done"
    /\ UNCHANGED <<place_query, geo_resp, weather_resp, origin, max_places, geocode, weather>>

Next == PlanGeocode \/ PlanWeather \/ PlanPlaces

Spec == Init /\ [][Next]_vars

---------------------------------------------------------------------------
(* get_weather called on every response of the bounded set *)

InitWeather ==
    /\ pc = "call"
    /\ place_query = ""
    /\ geo_resp = Unsent
    /\ weather_resp \in WeatherResponses
    /\ overpass_resp = Unsent
    /\ origin \in Origins
    /\ max_places = DEFAULT_MAX_PLACES
    /\ calls = <<>>
    /\ geocode = None
    /\ weather = None
    /\ places = <<>>
    /\ result = None

RunGetWeather ==
    /\ pc = "call"
    /\ weather_resp # Unsent
    /\ weather' = get_weather(origin[1], origin[2], weather_resp)
    /\ calls' = Append(calls, WeatherCall(origin[1], origin[2]))
    /\ pc' = "returned"
    /\ UNCHANGED <<place_query, geo_resp, weather_resp, overpass_resp, origin, max_places,
                   geocode, places, result>>

SpecWeather == InitWeather /\ [][RunGetWeather]_vars

---------------------------------------------------------------------------
(* find_places called on every response and limit of the bounded sets *)

InitPlaces ==
    /\ pc = "call"
    /\ place_query = ""
    /\ geo_resp = Unsent
    /\ weather_resp = Unsent
    /\ overpass_resp \in OverpassResponses
    /\ origin \in Origins
    /\ max_places \in 1..MaxLimit
    /\ calls = <<>>
    /\ geocode = None
    /\ weather = None
    /\ places = <<>>
    /\ result = None

RunFindPlaces ==
    /\ pc = "call"
    /\ overpass_resp # Unsent
    /\ places' = find_places(origin[1], origin[2], overpass_resp, DEFAULT_RADIUS_M, max_places)
    /\ calls' = Append(calls, OverpassCall(origin[1], origin[2], DEFAULT_RADIUS_M))
    /\ pc' = "returned"
    /\ UNCHANGED <<place_query, geo_resp, weather_resp, overpass_resp, origin, max_places,
                   geocode, weather, result>>

SpecPlaces == InitPlaces /\ [][RunFindPlaces]_vars

---------------------------------------------------------------------------
(* Properties.  The expectations below are stated on the provider          *)
(* responses, independently of the operators that model the code.          *)

\* the outcomes the geocoding resolver reports as NotFound: the request timed
\* out or errored, the provider sent no candidate list or an empty one, or the
\* top candidate's coordinate cannot be decoded
Decodable(v) == v.k = "num" \/ (v.k = "str" /\ v.s \in {"0", "30", "30.0", "60"})

NotFoundCase(resp) ==
    \/ resp.status \in {"timeout", "http_error", "bad_json"}
    \/ /\ resp.status = "ok"
       /\ \/ resp.data.k # "list"
          \/ resp.data.items = <<>>
          \/ ~Decodable(resp.data.items[1].lat)
          \/ ~Decodable(resp.data.items[1].lon)

\* the coordinate of the top candidate, as a number
DecodedValue(v) ==
    IF v.k = "num" THEN v.n
    ELSE CASE v.s = "0" -> 0 [] v.s \in {"30", "30.0"} -> 30 [] v.s = "60" -> 60

TopCoordinate(resp) ==
    <<DecodedValue(resp.data.items[1].lat), DecodedValue(resp.data.items[1].lon)>>

\* C1: when geocoding yields NotFound, plan_for_place has returned the failure
\* result whose message holds the query verbatim, and the only provider request
\* of the execution is the geocoding one (no weather or map-feature request).
C1_NotFoundStopsPlan ==
    (geo_resp # Unsent /\ NotFoundCase(geo_resp)) =>
        /\ pc = "done"
        /\ result = [ok |-> FALSE,
                     error |-> "I don't know this place exists: '" \o place_query
                               \o "'. Please check spelling or try a different place."]
        /\ calls = <<[provider |-> "nominatim", q |-> place_query, limit |-> 1]>>
        /\ weather_resp = Unsent
        /\ overpass_resp = Unsent

C1_Witness ==
    /\ pc = "done"
    /\ place_query = "Nowhere12345xyz"
    /\ geo_resp = Ok(ListDoc(<<>>))
    /\ result.ok = FALSE

\* the weather outcomes that leave no snapshot: failed request, malformed
\* document, no usable current-conditions block
WeatherFails(resp) ==
    \/ resp.status # "ok"
    \/ resp.data.k # "obj"
    \/ resp.data.current_weather.k # "obj"
    \/ ~resp.data.current_weather.nonempty

\* the map-feature outcomes that leave no places: failed request, malformed
\* document, or a malformed position on an element that is examined (named,
\* its name not met before)
PoiFails(resp) ==
    \/ resp.status # "ok"
    \/ resp.data.k # "obj"
    \/ \E i \in 1..Len(resp.data.elements) :
         LET el == resp.data.elements[i] IN
         /\ el.type = "node" /\ el.lat.k = "str"
         /\ el.tags.name.k = "str"
         /\ \A j \in 1..(i - 1) : resp.data.elements[j].tags.name # el.tags.name

StartsWithNamedNode(resp) ==
    /\ resp.data.elements # <<>>
    /\ resp.data.elements[1].type = "node"
    /\ resp.data.elements[1].tags.name.k = "str"

\* C2: once geocoding has succeeded, plan_for_place returns ok = TRUE for every
\* pair of weather and map-feature outcomes; the weather field is absent exactly
\* when the weather lookup failed and the places list is empty when the
\* map-feature lookup failed, each whatever the outcome of the other lookup.
C2_SoftFailuresIndependent ==
    (pc = "done" /\ ~NotFoundCase(geo_resp)) =>
        /\ result.ok = TRUE
        /\ (result.weather = None) <=> WeatherFails(weather_resp)
        /\ ~WeatherFails(weather_resp) =>
              result.weather.temperature = weather_resp.data.current_weather.temperature
        /\ PoiFails(overpass_resp) => result.places = <<>>
        /\ (~PoiFails(overpass_resp) /\ StartsWithNamedNode(overpass_resp)) => result.places # <<>>

C2_Witness ==
    /\ pc = "done"
    /\ result.ok = TRUE
    /\ weather_resp.status = "timeout"
    /\ result.weather = None
    /\ ~PoiFails(overpass_resp)
    /\ Len(result.places) = 2

\* C10: the provider requests of one execution are: the geocoding request,
\* exactly once and first; then, only if geocoding succeeded, one weather request
\* and one map-feature request, each carrying the latitude and longitude of the
\* top geocoding candidate, which is also the coordinate of the result's place;
\* no provider is requested twice, whatever failed.
C10_ProviderTrace ==
    /\ (pc = "start") <=> (calls = <<>>)
    /\ calls # <<>> => calls[1] = [provider |-> "nominatim", q |-> place_query, limit |-> 1]
    /\ \A i, j \in 1..Len(calls) : i # j => calls[i].provider # calls[j].provider
    /\ \A i \in 2..Len(calls) :
          /\ ~NotFoundCase(geo_resp)
          /\ calls[i].provider \in {"open-meteo", "overpass"}
          /\ calls[i].provider = "open-meteo" =>
                <<calls[i].latitude, calls[i].longitude>> = TopCoordinate(geo_resp)
          /\ calls[i].provider = "overpass" =>
                <<calls[i].lat, calls[i].lon>> = TopCoordinate(geo_resp)
    /\ pc = "done" =>
          IF NotFoundCase(geo_resp) THEN Len(calls) = 1
          ELSE /\ Len(calls) = 3
               /\ <<result.place.lat, result.place.lon>> = TopCoordinate(geo_resp)

C10_Witness ==
    /\ pc = "done"
    /\ Len(calls) = 3
    /\ geo_resp.data.items[1].lat = Str("30.0")
    /\ weather_resp.status = "timeout"
    /\ overpass_resp.status = "http_error"
    /\ result.place.lat = 30

---------------------------------------------------------------------------
(* find_places properties, checked under SpecPlaces *)

Elems == overpass_resp.data.elements

NamedEl(el) == el.tags.name.k = "str" /\ el.tags.name.s # ""

\* the position the provider gave for an element: the node's own, or the
\* centre of an area feature
GivenPosition(el) ==
    IF el.type = "node" THEN <<el.lat, el.lon>>
    ELSE IF el.center = None THEN <<None, None>>
    ELSE <<el.center.lat, el.center.lon>>

\* index of the first element carrying the name n
FirstNamed(n) ==
    CHOOSE i \in 1..Len(Elems) :
       Elems[i].tags.name = n /\ \A j \in 1..(i - 1) : Elems[j].tags.name # n

\* C3: the sequence find_places returns holds no two entries with the same name
\* and at most `limit` (max_places) entries, for every response and limit.
C3_UniqueNamesWithinLimit ==
    pc = "returned" =>
        /\ Len(places) <= max_places
        /\ \A i, j \in 1..Len(places) : i # j => places[i].name # places[j].name

C3_Witness ==
    /\ pc = "returned"
    /\ Len(places) = max_places
    /\ overpass_resp.status = "ok" /\ overpass_resp.data.k = "obj"
    /\ \E i, j \in 1..Len(Elems) : i < j /\ NamedEl(Elems[i]) /\ Elems[i].tags.name = Elems[j].tags.name
    /\ Cardinality({Elems[i].tags.name : i \in {i \in 1..Len(Elems) : NamedEl(Elems[i])}}) > max_places

\* C4: in the returned sequence the entries that have a distance are in
\* ascending order of distance and no entry without a distance precedes an
\* entry with one, whatever the order of the provider's elements.
C4_SortedThenDistanceless ==
    pc = "returned" =>
        \A i, j \in 1..Len(places) : i < j =>
            /\ (places[i].distance_km # None /\ places[j].distance_km # None) =>
                   places[i].distance_km.n <= places[j].distance_km.n
            /\ ~(places[i].distance_km = None /\ places[j].distance_km # None)

C4_Witness ==
    /\ pc = "returned"
    /\ Len(places) = 3
    /\ places[1].distance_km # None /\ places[2].distance_km # None
    /\ places[1].distance_km.n < places[2].distance_km.n
    /\ places[3].distance_km = None
    /\ Elems[1].tags.name = places[3].name
    /\ Elems[2].tags.name = places[2].name

\* reference pipeline of C7: stable selection sort of the distance-bearing
\* entries, then the distance-less ones in provider order, then truncation
RemoveAt(seq, i) == SubSeq(seq, 1, i - 1) \o SubSeq(seq, i + 1, Len(seq))

RECURSIVE SelectionSorted(_)
SelectionSorted(seq) ==
    IF seq = <<>> THEN <<>>
    ELSE LET i == CHOOSE a \in 1..Len(seq) :
                     /\ \A b \in 1..Len(seq) : seq[a].distance_km.n <= seq[b].distance_km.n
                     /\ \A b \in 1..(a - 1) : seq[b].distance_km.n > seq[a].distance_km.n
         IN <<seq[i]>> \o SelectionSorted(RemoveAt(seq, i))

WithDistance(p) == p.distance_km.k = "num"
WithoutDistance(p) == p.distance_km.k = "none"

PartitionConcatTruncate(all, limit) ==
    LET whole == SelectionSorted(SelectSeq(all, WithDistance)) \o SelectSeq(all, WithoutDistance)
    IN SubSeq(whole, 1, IF limit < Len(whole) THEN limit ELSE Len(whole))

\* the entries built from the response, before ranking
Candidates == CollectPlaces(origin[1], origin[2], Elems, <<>>, {})

\* C7: for every response that is processed without error and every limit, the
\* returned sequence equals the first `limit` entries of: the distance-bearing
\* entries sorted ascending by distance, followed by all distance-less entries
\* in provider order.
C7_EqualsPartitionPipeline ==
    (pc = "returned" /\ ~PoiFails(overpass_resp)) =>
        places = PartitionConcatTruncate(Candidates.places, max_places)

C7_Witness ==
    /\ pc = "returned"
    /\ ~PoiFails(overpass_resp)
    /\ max_places = 2
    /\ Len(Candidates.places) = 3
    /\ Len(SelectSeq(Candidates.places, WithDistance)) = 1
    /\ Candidates.places[1].distance_km = None
    /\ Len(places) = 2
    /\ places[2] = Candidates.places[1]

\* C8: every returned entry whose latitude and longitude were both given by the
\* provider (0 included) has distance_km present and equal to the haversine
\* distance from the query coordinate to that position.
C8_DistanceForEveryPosition ==
    pc = "returned" =>
        \A i \in 1..Len(places) :
            (places[i].lat.k = "num" /\ places[i].lon.k = "num") =>
                places[i].distance_km =
                    Num(haversine(origin[1], origin[2], places[i].lat.n, places[i].lon.n))

\* C9: every returned entry carries the tags and position of the first element
\* of the response bearing its name; and when the first element bearing a name
\* is an area feature without a centre, no entry has that name, even if a later
\* element bearing it has a position.
C9_FirstOccurrenceDecides ==
    (pc = "returned" /\ overpass_resp.status = "ok" /\ overpass_resp.data.k = "obj") =>
        /\ \A i \in 1..Len(places) :
              LET el == Elems[FirstNamed(places[i].name)] IN
              /\ places[i].tags = el.tags
              /\ <<places[i].lat, places[i].lon>> = GivenPosition(el)
        /\ \A k \in 1..Len(Elems) :
              (NamedEl(Elems[k]) /\ FirstNamed(Elems[k].tags.name) = k
                 /\ Elems[k].type # "node" /\ GivenPosition(Elems[k]) = <<None, None>>)
              => \A i \in 1..Len(places) : places[i].name # Elems[k].tags.name

C9_Witness ==
    /\ pc = "returned"
    /\ overpass_resp.status = "ok" /\ overpass_resp.data.k = "obj"
    /\ Len(Elems) = 3
    /\ Elems[1].type = "way" /\ Elems[1].center = None /\ Elems[1].tags.name = Str("A")
    /\ Elems[2].type = "node" /\ Elems[2].lat = Num(30) /\ Elems[2].tags.name = Str("A")
    /\ Elems[3].tags.name = Str("B")
    /\ Len(places) = 1
    /\ places[1].name = Str("B")

---------------------------------------------------------------------------
(* get_weather properties, checked under SpecWeather *)

WDoc == weather_resp.data
WCurr == WDoc.current_weather
WTimes == WDoc.hourly.time
WProbs == WDoc.hourly.precipitation_probability

\* wall-clock minute of a timestamp text, any zone designator ignored
WallClock ==
    [s \in {"2024-01-01T10:00", "2024-01-01T10:30", "2024-01-01T10:40", "2024-01-01T11:00",
            "2024-01-01T11:00:00", "2024-01-01T11:00+05:30"} |->
        IF s = "2024-01-01T10:00" THEN 600
        ELSE IF s = "2024-01-01T10:30" THEN 630
        ELSE IF s = "2024-01-01T10:40" THEN 640
        ELSE 660]

Readable(v) == v.k = "str" /\ v.s \in DOMAIN WallClock

Gap(i) == Abs(WallClock[WCurr.time.s] - WallClock[WTimes[i].s])

\* a snapshot was produced from a document with an hourly object
HasHourlySeries ==
    /\ weather_resp.status = "ok" /\ WDoc.k = "obj"
    /\ WCurr.k = "obj" /\ WCurr.nonempty
    /\ WDoc.hourly.k = "obj"

ExactMatch == \E i \in 1..Len(WTimes) : WTimes[i] = WCurr.time

AllReadable == Readable(WCurr.time) /\ \A i \in 1..Len(WTimes) : Readable(WTimes[i])

\* the hourly entry the alignment rule designates
Designated(i) ==
    IF ExactMatch
    THEN WTimes[i] = WCurr.time /\ \A j \in 1..(i - 1) : WTimes[j] # WCurr.time
    ELSE /\ \A j \in 1..Len(WTimes) : Gap(i) <= Gap(j)
         /\ \A j \in 1..(i - 1) : Gap(j) > Gap(i)

\* the reported figure for a probability value: the value itself when whole,
\* the nearest integer (halves to even) otherwise, absent when it is null
Reported(p) ==
    IF p.k = "num" THEN p
    ELSE IF p.k = "half" THEN Num(IF p.n % 2 = 0 THEN p.n ELSE p.n + 1)
    ELSE None

\* C5: with non-empty hourly arrays of equal length, the reported probability
\* is that of the first hourly entry whose timestamp equals the current
\* timestamp; absent such an entry (and with every timestamp readable), it is
\* that of the entry with the smallest absolute time difference, the earliest
\* one on ties.
C5_PrecipAlignment ==
    (/\ pc = "returned" /\ HasHourlySeries
     /\ WTimes # <<>> /\ Len(WProbs) = Len(WTimes)
     /\ (ExactMatch \/ AllReadable)) =>
        \E i \in 1..Len(WTimes) :
            Designated(i) /\ weather.precip_prob = Reported(WProbs[i])

C5_Witness ==
    /\ pc = "returned"
    /\ HasHourlySeries
    /\ WTimes = <<Str("2024-01-01T10:00"), Str("2024-01-01T11:00")>>
    /\ WProbs = <<Num(10), Num(80)>>
    /\ WCurr.time = Str("2024-01-01T10:40")
    /\ weather.precip_prob = Num(80)

\* the ways the hourly data can be defective
HourlyDefect ==
    \/ WDoc.hourly.k # "obj"
    \/ WTimes = <<>> \/ WProbs = <<>>
    \/ ~ExactMatch /\ ~AllReadable
    \/ \E i \in 1..Len(WTimes) :
          Designated(i) /\ (i > Len(WProbs) \/ WProbs[i] = None)

RequestOrDocumentBad ==
    \/ weather_resp.status # "ok"
    \/ WDoc.k # "obj"
    \/ WCurr.k \notin {"none", "obj"}

\* C6 as stated: None only for a failed request, a malformed response or a
\* missing current-conditions block; any current-conditions block present gives
\* a snapshot with its temperature, wind speed and timestamp.
C6_UnavailableOnlyWhenMissing ==
    pc = "returned" =>
        /\ (weather = None) <=> (RequestOrDocumentBad \/ WCurr = None)
        /\ weather # None =>
              /\ weather.temperature = WCurr.temperature
              /\ weather.windspeed = WCurr.windspeed
              /\ weather.time = WCurr.time

\* C6 (amended): get_weather returns None exactly when the request failed, the
\* response is malformed, or the current-conditions block is missing or empty;
\* otherwise it returns a snapshot with the block's temperature, wind speed and
\* timestamp, and a defect of the hourly data only leaves precip_prob absent.
C6_UnavailableOnlyWhenMissingOrEmpty ==
    pc = "returned" =>
        /\ (weather = None) <=>
              (RequestOrDocumentBad \/ WCurr = None \/ (WCurr.k = "obj" /\ ~WCurr.nonempty))
        /\ weather # None =>
              /\ weather.temperature = WCurr.temperature
              /\ weather.windspeed = WCurr.windspeed
              /\ weather.time = WCurr.time
              /\ HourlyDefect => weather.precip_prob = None

C6_Witness ==
    /\ pc = "returned"
    /\ HasHourlySeries
    /\ WTimes = <<Str("not-a-time"), Str("2024-01-01T11:00")>>
    /\ WProbs = <<Num(10)>>
    /\ WCurr.time = Str("2024-01-01T10:40")
    /\ weather # None
    /\ weather.temperature = Num(21)
    /\ weather.precip_prob = None

====
